---- MODULE Spec2Model ----
(***************************************************************************)
(* Day-by-day inventory simulation of Modules/simulation.py.               *)
(*                                                                         *)
(* Numbers.  Piece counts are integers.  The float columns of the policy   *)
(* tables (mu_daily, safety_stock, reorder_point, EOQ) are rationals with  *)
(* the common denominator PolDen; a map holds the numerators.  Unit        *)
(* weights are rationals with the common denominator wden: a weight w      *)
(* stands for w / wden kg, and every "tons" quantity of the source is held *)
(* in the same weight units (1 ton = 1000 * wden units).  Percentages are  *)
(* pairs <<num, den>> standing for num / den.  Float rounding error is     *)
(* not modelled: arithmetic is exact, and as_int keeps its 1e-9 term.      *)
(***************************************************************************)
EXTENDS Integers, Sequences, FiniteSets, TLC

\* ---------------------------------------------------------------- bounds
NSku == 2
MaxDays == 9
PolDen == 2
StdDen == 125
FineDen == 150000
ThickDen == 10
MaxQuiet == 1
MaxSkips == 1
MaxRows == 4
MantBits == 10
MaxItems == 3

\* ------------------------------------------------------ program constants
TRUCK_MIN_TONS == 10
TRUCK_MAX_TONS == 12
DEFAULT_LEAD_DAYS == 7
COVER_DAYS == 45
EpsDen == 1000000000
FallbackKg == 40
NoDatesSpan == 1000000
TopMonths == 3

SKUS == 1..NSku

VARIABLES
  interactive, inv, dem, mu_map, ss_map, rop_map, eoq_map, weight_map,
  label_mm, wden,
  day, pc, idx, todays,
  on_hand, on_order, backorders, pending_batch, pos_in_transit,
  day_demand, day_shipped, triggered_today, day_order_placed, day_order_tons,
  cum_demand, cum_shipped, today_backordered, today_bo_ratio,
  open_backorders_units, cum_fill_rate, cum_bo_ratio, pend_tons,
  daily_rows, final_inv, overall_cum_fill, overall_bo_ratio,
  oh_start, bo_start, arrived_today, shipped_today, short_today,
  received, n_orders, trig_ip, trig_need, last_order, n_quiet, n_skips,
  ordered, demanded,
  raw, lenient, dt_us, dt_eu, choose_eu, chosen_dt, dstep,
  f_weight_map, f_pending_batch, f_pend_tons, f_order_placed, f_order_tons,
  f_proposal, f_row, f_step

tables == <<interactive, inv, dem, mu_map, ss_map, rop_map, eoq_map,
            weight_map, label_mm, wden>>
dates == <<raw, lenient, dt_us, dt_eu, choose_eu, chosen_dt, dstep>>
floats == <<f_weight_map, f_pending_batch, f_pend_tons, f_order_placed,
            f_order_tons, f_proposal, f_row, f_step>>
inputs == <<tables, dates, floats>>
ledger == <<on_hand, on_order, backorders>>
counters == <<day_demand, day_shipped, triggered_today>>
cums == <<cum_demand, cum_shipped>>
rowvals == <<today_backordered, today_bo_ratio, open_backorders_units,
             cum_fill_rate, cum_bo_ratio, pend_tons>>
endvals == <<final_inv, overall_cum_fill, overall_bo_ratio>>
daysnap == <<oh_start, bo_start, arrived_today, shipped_today, short_today>>
vars == <<inputs, day, pc, idx, todays, ledger, pending_batch,
          pos_in_transit, counters, day_order_placed, day_order_tons, cums,
          rowvals, daily_rows, endvals, daysnap, received, n_orders,
          trig_ip, trig_need, last_order, n_quiet, n_skips, ordered,
          demanded>>

\* ---------------------------------------------------------------- helpers
Max2(a, b) == IF a >= b THEN a ELSE b

Min2(a, b) == IF a <= b THEN a ELSE b

\* as_int(n / d): max(0, floor(n/d + 1e-9)), d > 0.  floor(n/d + 1/EpsDen)
\* exceeds floor(n/d) by one exactly when (d - n % d) * EpsDen <= d.
as_int(n, d) ==
  IF n < 0 THEN 0
  ELSE (n \div d) + (IF d - (n % d) <= d \div EpsDen THEN 1 ELSE 0)

\* Get whose default is 1.0 in place of 0.0
GetDefaultOne(map, s) == IF s \in DOMAIN map THEN map[s] ELSE PolDen

\* defaultdict(float) lookup
Get(map, s) == IF s \in DOMAIN map THEN map[s] ELSE 0

\* round(n / d) to the nearest integer, ties to even (Python round), n >= 0
RoundHalfEven(n, d) ==
  LET q == n \div d
      r == n % d
  IN  IF 2 * r < d THEN q
      ELSE IF 2 * r > d THEN q + 1
      ELSE IF q % 2 = 0 THEN q ELSE q + 1

\* per-piece weight, in weight units (kg * wden)
piece_weight_kg(s, wmap, lbl, den) ==
  IF s \in DOMAIN wmap /\ wmap[s] > 0 THEN wmap[s]
  ELSE IF lbl[s] >= 0 THEN (lbl[s] * 224 * den) \div (ThickDen * 100)
  ELSE FallbackKg * den

\* weight of q pieces of s, in weight units (tons * 1000 * wden)
qty_to_tons(s, q, wmap, lbl, den) ==
  piece_weight_kg(s, wmap, lbl, den) * as_int(q, 1)

TruckMin(den) == TRUCK_MIN_TONS * 1000 * den

TruckMax(den) == TRUCK_MAX_TONS * 1000 * den

\* ------------------------------------------------------- dict-like state
\* A dict that keeps insertion order (pending_batch) is a sequence of
\* [sku, qty] entries; a plain dict (a proposal, a PO's items) is a
\* function on the set of its keys.
EmptyDict == [x \in {} |-> 0]

PendingKeys(pb) == {pb[i].sku : i \in 1..Len(pb)}

PendingQty(pb, s) ==
  IF s \in PendingKeys(pb)
  THEN LET i == CHOOSE j \in 1..Len(pb) : pb[j].sku = s IN pb[i].qty
  ELSE 0

PendingDict(pb) == [s \in PendingKeys(pb) |-> PendingQty(pb, s)]

\* pending_batch[s] = q : in place for an existing key, else appended
PendingSet(pb, s, q) ==
  IF s \in PendingKeys(pb)
  THEN [i \in 1..Len(pb) |-> IF pb[i].sku = s THEN [sku |-> s, qty |-> q]
                                              ELSE pb[i]]
  ELSE Append(pb, [sku |-> s, qty |-> q])

\* for s in keys: pending_batch.pop(s, None)
PendingPop(pb, keys) ==
  LET Keep(e) == e.sku \notin keys IN SelectSeq(pb, Keep)

RECURSIVE SumOver(_, _)
SumOver(f, S) ==
  IF S = {} THEN 0
  ELSE LET x == CHOOSE y \in S : TRUE IN f[x] + SumOver(f, S \ {x})

\* total weight of a dict sku -> qty, in weight units
batch_tons(batch, wmap, lbl, den) ==
  SumOver([s \in DOMAIN batch |-> qty_to_tons(s, batch[s], wmap, lbl, den)],
          DOMAIN batch)

\* ------------------------------------------------------------ the ledger
inventory_position(oh, oo, bo, s) == as_int(oh[s] + oo[s] - bo[s], 1)

\* target = mu_map[sku] * 45 + ss_map[sku], numerator over PolDen
TargetCover(s) == Get(mu_map, s) * COVER_DAYS + Get(ss_map, s)

\* order_need_qty whose structural need leaves the backorders out
OrderNeedGapOnly(oh, oo, bo, s) ==
  LET ip == inventory_position(oh, oo, bo, s)
      gap == Max2(0, TargetCover(s) - ip * PolDen)
  IN  Max2(as_int(Get(eoq_map, s), PolDen), as_int(gap, PolDen))

order_need_qty(oh, oo, bo, s) ==
  LET ip == inventory_position(oh, oo, bo, s)
      gap == Max2(0, TargetCover(s) - ip * PolDen)
      structural_need == as_int(bo[s], 1) + as_int(gap, PolDen)
  IN  Max2(as_int(Get(eoq_map, s), PolDen), structural_need)

\* Triggered with a strict comparison
TriggeredStrict(ip, s) == ip * PolDen < Get(rop_map, s)

\* inventory_position(s) <= rop_map[s]
Triggered(ip, s) == ip * PolDen <= Get(rop_map, s)

\* Fulfil that repays an open backorder from the stock left after shipping
FulfilRepaying(oh, sold) ==
  IF sold > 0
  THEN IF oh >= sold
       THEN [on_hand |-> oh - sold, shipped |-> sold,
             short |-> IF oh > sold THEN -1 ELSE 0]
       ELSE [on_hand |-> 0, shipped |-> oh, short |-> sold - oh]
  ELSE [on_hand |-> oh, shipped |-> 0, short |-> 0]

\* Fulfil that ships what is there and forgets the shortfall
FulfilShortLost(oh, sold) ==
  IF sold > 0
  THEN IF oh >= sold
       THEN [on_hand |-> oh - sold, shipped |-> sold, short |-> 0]
       ELSE [on_hand |-> 0, shipped |-> oh, short |-> 0]
  ELSE [on_hand |-> oh, shipped |-> 0, short |-> 0]

\* Fulfil without the shortage branch: on_hand is decremented by the whole
\* demand even when the stock is smaller.
FulfilNoShortage(oh, sold) ==
  IF sold > 0
  THEN [on_hand |-> oh - sold, shipped |-> sold, short |-> 0]
  ELSE [on_hand |-> oh, shipped |-> 0, short |-> 0]

\* demand fulfilment of one SKU (lines 290-300)
Fulfil(oh, sold) ==
  IF sold > 0
  THEN IF oh >= sold
       THEN [on_hand |-> oh - sold, shipped |-> sold, short |-> 0]
       ELSE [on_hand |-> 0, shipped |-> oh, short |-> sold - oh]
  ELSE [on_hand |-> oh, shipped |-> 0, short |-> 0]

\* UpdatePending that does not record the need
UpdatePendingNever(pb, s, ip, need) == pb

\* trigger check of one SKU on the ledger after shipping (lines 303-308)
UpdatePending(pb, s, ip, need) ==
  IF Triggered(ip, s) /\ need > 0 /\ need > as_int(PendingQty(pb, s), 1)
  THEN PendingSet(pb, s, need)
  ELSE pb

\* ----------------------------------------------------------- the batcher
\* sorted(pending_batch.items(), key=-tons): stable, heaviest first
RECURSIVE InsertItem(_, _, _, _, _)
InsertItem(sorted, e, wmap, lbl, den) ==
  IF sorted = <<>> THEN <<e>>
  ELSE IF qty_to_tons(Head(sorted).sku, Head(sorted).qty, wmap, lbl, den)
            >= qty_to_tons(e.sku, e.qty, wmap, lbl, den)
       THEN <<Head(sorted)>> \o InsertItem(Tail(sorted), e, wmap, lbl, den)
       ELSE <<e>> \o sorted

RECURSIVE SortItems(_, _, _, _)
SortItems(pb, wmap, lbl, den) ==
  IF pb = <<>> THEN <<>>
  ELSE InsertItem(SortItems(SubSeq(pb, 1, Len(pb) - 1), wmap, lbl, den),
                  pb[Len(pb)], wmap, lbl, den)

\* allowed = as_int(remaining_kg / unit_kg) if unit_kg > 0 else 0
Allowed(remaining, unit) == IF unit > 0 THEN as_int(remaining, unit) ELSE 0

\* the packing loop of propose_batch (lines 232-247) from item i on
RECURSIVE PackLoop(_, _, _, _, _, _, _)
PackLoop(items, i, chosen, total, wmap, lbl, den) ==
  IF i > Len(items) THEN [chosen |-> chosen, total |-> total]
  ELSE
    LET s == items[i].sku
        q == as_int(items[i].qty, 1)
        unit == piece_weight_kg(s, wmap, lbl, den)
        cur == qty_to_tons(s, q, wmap, lbl, den)
    IN  IF q <= 0 THEN PackLoop(items, i + 1, chosen, total, wmap, lbl, den)
        ELSE IF total + cur <= TruckMax(den)
        THEN PackLoop(items, i + 1, (s :> q) @@ chosen, total + cur,
                      wmap, lbl, den)
        ELSE LET remaining == Max2(0, TruckMax(den) - total)
                 allowed == Allowed(remaining, unit)
             IN  IF allowed > 0
                 THEN [chosen |-> (s :> allowed) @@ chosen,
                       total |-> total + qty_to_tons(s, allowed, wmap, lbl, den)]
                 ELSE [chosen |-> chosen, total |-> total]

propose_batch(pb, wmap, lbl, den) ==
  IF pb = <<>> THEN [can_make |-> FALSE, proposal |-> EmptyDict, tons |-> 0]
  ELSE
    LET items == SortItems(pb, wmap, lbl, den)
        total_pending == batch_tons(PendingDict(pb), wmap, lbl, den)
    IN  IF total_pending < TruckMin(den)
        THEN [can_make |-> FALSE, proposal |-> EmptyDict,
              tons |-> total_pending]
        ELSE \* the loop runs once, over the sorted list
             LET r == CHOOSE x \in {PackLoop(it, 1, EmptyDict, 0, wmap,
                                              lbl, den) : it \in {items}} :
                        TRUE
             IN  IF r.total >= TruckMin(den)
                 THEN [can_make |-> TRUE, proposal |-> r.chosen,
                       tons |-> r.total]
                 ELSE [can_make |-> FALSE, proposal |-> EmptyDict,
                       tons |-> r.total]

\* PlaceOnOrder that books one piece too many per SKU
PlaceOnOrderPlusOne(oo, proposal) ==
  [s \in SKUS |-> IF s \in DOMAIN proposal
                  THEN oo[s] + as_int(proposal[s], 1) + 1 ELSE oo[s]]

\* PlaceOnOrder that does not book the pieces on order
PlaceOnOrderForgot(oo, proposal) == oo

\* place_order (lines 253-262), one result per piece of state it changes
PlaceOnOrder(oo, proposal) ==
  [s \in SKUS |-> IF s \in DOMAIN proposal
                  THEN oo[s] + as_int(proposal[s], 1) ELSE oo[s]]

\* PlaceTransit that files the PO twice
PlaceTransitTwice(pos, today, proposal, id) ==
  LET po == [eta |-> today + DEFAULT_LEAD_DAYS, items |-> proposal, id |-> id]
  IN  pos \o <<po, po>>

\* PlaceTransit whose PO is due the next day
PlaceTransitNextDay(pos, today, proposal, id) ==
  Append(pos, [eta |-> today + 1, items |-> proposal, id |-> id])

PlaceTransit(pos, today, proposal, id) ==
  Append(pos, [eta |-> today + DEFAULT_LEAD_DAYS, items |-> proposal,
               id |-> id])

\* PlacePending that keeps the part of an entry that was not ordered
PlacePendingRemainder(pb, proposal) ==
  LET Keep(e) == e.sku \notin DOMAIN proposal \/ e.qty > proposal[e.sku]
  IN  [i \in 1..Len(SelectSeq(pb, Keep)) |->
         LET e == SelectSeq(pb, Keep)[i]
         IN  IF e.sku \in DOMAIN proposal
             THEN [sku |-> e.sku, qty |-> e.qty - proposal[e.sku]]
             ELSE e]

\* PlacePending that clears the whole pending batch
PlacePendingClearAll(pb, proposal) == <<>>

PlacePending(pb, proposal) == PendingPop(pb, DOMAIN proposal)

\* ------------------------------------------------------------- arrivals
\* arrivals = [po for po in pos_in_transit if po["eta"] == day]
ArrivalsOf(pos, d) == LET Due(po) == po.eta = d IN SelectSeq(pos, Due)

\* StillInTransit that keeps the received POs in the list
StillInTransitKeepAll(pos, d) == pos

\* pos_in_transit = [po for po in pos_in_transit if po["eta"] != day]
StillInTransit(pos, d) == LET Open(po) == po.eta # d IN SelectSeq(pos, Open)

\* pieces of s in a list of POs
RECURSIVE ItemsOf(_, _)
ItemsOf(pos, s) ==
  IF pos = <<>> THEN 0
  ELSE (IF s \in DOMAIN Head(pos).items
        THEN as_int(Head(pos).items[s], 1) ELSE 0) + ItemsOf(Tail(pos), s)

\* ReceiveOnHand that loses the arriving pieces
ReceiveOnHandLost(oh, arrivals) == oh

\* ReceiveOnHand that first pays the open backorders out of the arrival
ReceiveOnHandRepaying(oh, arrivals) ==
  [s \in SKUS |-> oh[s] + Max2(0, ItemsOf(arrivals, s) - backorders[s])]

ReceiveOnHand(oh, arrivals) == [s \in SKUS |-> oh[s] + ItemsOf(arrivals, s)]

\* ReceiveOnOrder that leaves the received pieces on order
ReceiveOnOrderKept(oo, arrivals) == oo

ReceiveOnOrder(oo, arrivals) == [s \in SKUS |-> oo[s] - ItemsOf(arrivals, s)]

\* ------------------------------------------------------------ percentages
\* CumFillRate without the zero-demand case (divides by max(1, demand))
CumFillRateNoZeroCase(shipped, demand) == <<shipped * 100, Max2(1, demand)>>

\* cum_fill_rate (line 318) as a fraction <<num, den>>
CumFillRate(shipped, demand) ==
  IF demand > 0 THEN <<shipped * 100, demand>> ELSE <<100, 1>>

\* today_bo_ratio (line 316)
TodayBoRatio(backordered, demand) ==
  IF demand > 0 THEN <<backordered * 100, demand>> ELSE <<0, 1>>

\* 100.0 - x
HundredMinus(x) == <<100 * x[2] - x[1], x[2]>>

\* overall_cum_fill (line 386)
OverallCumFill(shipped, demand) == <<shipped * 100, Max2(1, demand)>>

\* round(x, 2), in hundredths
Round2(x) == RoundHalfEven(x[1] * 100, x[2])

\* round(tons, 3), in thousandths of a ton, from weight units
Round3(w, den) == RoundHalfEven(w, den)

\* ------------------------------------------------------------------ dates
\* A row of the Date column is "a-b-2024" (the separators . and / are
\* turned into -): raw holds the pairs <<a, b>>.  A parsed date is a record
\* [m, d]; NaT is the record with m = 0.
NaT == [m |-> 0, d |-> 0]

DaysIn == <<31, 29, 31, 30, 31, 30, 31, 31, 30, 31, 30, 31>>

ValidDate(x) == x.m \in 1..12 /\ x.d >= 1 /\ x.d <= DaysIn[x.m]

\* day of the year 2024
DayNo(x) == SumOver([k \in 1..(x.m - 1) |-> DaysIn[k]], 1..(x.m - 1)) + x.d

MonthFirst(r) == [m |-> r[1], d |-> r[2]]

DayFirst(r) == [m |-> r[2], d |-> r[1]]

\* the reading a row gets with the order asked for, and with the other one
Preferred(r, dayfirst) == IF dayfirst THEN DayFirst(r) ELSE MonthFirst(r)

Other(r, dayfirst) == IF dayfirst THEN MonthFirst(r) ELSE DayFirst(r)

\* pd.to_datetime(raw, errors="coerce", dayfirst=...): dayfirst is a
\* preference.  A library that parses row by row (len) reads a row in the
\* other order when the preferred order gives no date; a library that fixes
\* one format for the column takes it from the first row, in the other
\* order when the preferred one gives no date there, and turns every row
\* that does not fit into NaT.
to_datetime(rows, dayfirst, len) ==
  IF len
  THEN [i \in 1..Len(rows) |->
          IF ValidDate(Preferred(rows[i], dayfirst))
          THEN Preferred(rows[i], dayfirst)
          ELSE IF ValidDate(Other(rows[i], dayfirst))
          THEN Other(rows[i], dayfirst)
          ELSE NaT]
  ELSE LET fmt == IF rows # <<>>
                     /\ ~ValidDate(Preferred(rows[1], dayfirst))
                     /\ ValidDate(Other(rows[1], dayfirst))
                  THEN ~dayfirst ELSE dayfirst
       IN  [i \in 1..Len(rows) |->
              IF ValidDate(Preferred(rows[i], fmt))
              THEN Preferred(rows[i], fmt) ELSE NaT]

\* sum of the TopMonths largest month counts of the dates v (indices V)
TopCount(dt, V) ==
  LET cnt == [k \in 1..12 |-> Cardinality({i \in V : dt[i].m = k})]
      used == {k \in 1..12 : cnt[k] > 0}
      picks == {P \in SUBSET used : Cardinality(P) <= TopMonths}
      sums == {SumOver(cnt, P) : P \in picks}
  IN  CHOOSE x \in sums : \A y \in sums : y <= x

\* score(dt) (lines 102-108): [span, top, n] stands for (-span, top / n)
score(dt) ==
  LET V == {i \in 1..Len(dt) : dt[i] # NaT}
      days == {DayNo(dt[i]) : i \in V}
      hi == CHOOSE x \in days : \A y \in days : y <= x
      lo == CHOOSE x \in days : \A y \in days : y >= x
  IN  IF V = {} THEN [span |-> NoDatesSpan, top |-> 0, n |-> 1]
      ELSE [span |-> hi - lo, top |-> TopCount(dt, V),
            n |-> Cardinality(V)]

\* se > su on the tuples (-span, conc)
ScoreGreater(se, su) ==
  \/ se.span < su.span
  \/ se.span = su.span /\ se.top * su.n > su.top * se.n

\* ------------------------------------------------- floating point
\* Weights and tons are Python floats.  A float is <<m, e>>, the number
\* m * 2^e with m = 0 or 2^(MantBits-1) <= m < 2^MantBits; every operation
\* returns the float nearest to the exact result, ties to the even mantissa
\* (IEEE 754 round-to-nearest-even; binary64 is MantBits = 53).
Pow2(k) == 2 ^ k

RECURSIVE BitLen(_)
BitLen(n) == IF n = 0 THEN 0 ELSE 1 + BitLen(n \div 2)

FZero == <<0, 0>>

\* a mantissa that rounding has carried to 2^MantBits
FCarry(m, e) ==
  IF m = Pow2(MantBits) THEN <<Pow2(MantBits - 1), e + 1>> ELSE <<m, e>>

\* the float nearest to n * 2^e, n >= 0
FNorm(n, e) ==
  IF n = 0 THEN FZero
  ELSE LET k == BitLen(n)
       IN  IF k > MantBits
           THEN FCarry(RoundHalfEven(n, Pow2(k - MantBits)),
                       e + (k - MantBits))
           ELSE <<n * Pow2(MantBits - k), e - (MantBits - k)>>

\* float(n) of a whole number
FInt(n) == FNorm(n, 0)

\* the float nearest to n / d, 0 < n / d < 2^(MantBits-1): a decimal literal
RECURSIVE FRatUp(_, _, _)
FRatUp(n, d, e) ==
  IF n \div d >= Pow2(MantBits - 1) THEN FCarry(RoundHalfEven(n, d), e)
  ELSE IF d % 2 = 0 THEN FRatUp(n, d \div 2, e - 1)
  ELSE FRatUp(2 * n, d, e - 1)

\* the float nearest to n / d, n >= 0, d > 0
FRat(n, d) ==
  IF n = 0 THEN FZero
  ELSE IF n \div d >= Pow2(MantBits - 1)
  THEN LET sh == Max2(0, BitLen(n \div d) - MantBits)
       IN  FCarry(RoundHalfEven(n, d * Pow2(sh)), sh)
  ELSE FRatUp(n, d, 0)

\* a <= b
FLe(a, b) ==
  IF a[1] = 0 THEN TRUE
  ELSE IF b[1] = 0 THEN FALSE
  ELSE IF a[2] - b[2] > MantBits THEN FALSE
  ELSE IF b[2] - a[2] > MantBits THEN TRUE
  ELSE LET e == Min2(a[2], b[2])
       IN  a[1] * Pow2(a[2] - e) <= b[1] * Pow2(b[2] - e)

\* a + b; an addend below a quarter of the other's last place is absorbed
FAdd(a, b) ==
  IF a[1] = 0 THEN b
  ELSE IF b[1] = 0 THEN a
  ELSE IF a[2] - b[2] > MantBits + 1 THEN a
  ELSE IF b[2] - a[2] > MantBits + 1 THEN b
  ELSE LET e == Min2(a[2], b[2])
       IN  FNorm(a[1] * Pow2(a[2] - e) + b[1] * Pow2(b[2] - e), e)

\* max(0.0, a - b)
FSubMax0(a, b) ==
  IF FLe(a, b) THEN FZero
  ELSE IF b[1] = 0 \/ a[2] - b[2] > MantBits + 1 THEN a
  ELSE LET e == Min2(a[2], b[2])
       IN  FNorm(a[1] * Pow2(a[2] - e) - b[1] * Pow2(b[2] - e), e)

\* a * b
FMul(a, b) == FNorm(a[1] * b[1], a[2] + b[2])

\* a / b, b > 0: the quotient of the mantissas to MantBits + 2 places, with
\* one more bit that tells whether anything was left over
FDiv(a, b) ==
  IF a[1] = 0 THEN FZero
  ELSE LET n == a[1] * Pow2(MantBits + 2)
       IN  FNorm(2 * (n \div b[1]) + (IF n % b[1] = 0 THEN 0 ELSE 1),
                 a[2] - b[2] - MantBits - 3)

\* math.floor(a), a >= 0
FFloor(a) ==
  IF a[2] >= 0 THEN a[1] * Pow2(a[2])
  ELSE IF 0 - a[2] > MantBits THEN 0
  ELSE a[1] \div Pow2(0 - a[2])

\* the literal 1e-9
EpsF == FRat(1, EpsDen)

\* as_int of a float: max(0, int(math.floor(float(x) + 1e-9)))
as_int_f(x) == Max2(0, FFloor(FAdd(x, EpsF)))

\* round(x, 3): the float nearest to x rounded to thousandths, ties to even
Round3F(x) ==
  FRat(IF x[2] >= 0 THEN x[1] * Pow2(x[2]) * 1000
       ELSE RoundHalfEven(x[1] * 1000, Pow2(0 - x[2])), 1000)

\* piece_weight_kg for a SKU whose label carries no thickness
piece_weight_kg_f(s, wmap) ==
  IF s \in DOMAIN wmap /\ wmap[s][1] > 0 THEN wmap[s] ELSE FInt(FallbackKg)

\* (piece_weight_kg * as_int(q)) / 1000.0
qty_to_tons_f(s, q, wmap) ==
  FDiv(FMul(piece_weight_kg_f(s, wmap), FInt(as_int(q, 1))), FInt(1000))

\* sum(...) over the dict in insertion order, from entry i on
RECURSIVE SumFrom(_, _, _, _)
SumFrom(pb, i, acc, wmap) ==
  IF i > Len(pb) THEN acc
  ELSE SumFrom(pb, i + 1, FAdd(acc, qty_to_tons_f(pb[i].sku, pb[i].qty, wmap)),
               wmap)

batch_tons_f(pb, wmap) == SumFrom(pb, 1, FZero, wmap)

RECURSIVE InsertItemF(_, _, _)
InsertItemF(sorted, e, wmap) ==
  IF sorted = <<>> THEN <<e>>
  ELSE IF FLe(qty_to_tons_f(e.sku, e.qty, wmap),
              qty_to_tons_f(Head(sorted).sku, Head(sorted).qty, wmap))
       THEN <<Head(sorted)>> \o InsertItemF(Tail(sorted), e, wmap)
       ELSE <<e>> \o sorted

RECURSIVE SortItemsF(_, _)
SortItemsF(pb, wmap) ==
  IF pb = <<>> THEN <<>>
  ELSE InsertItemF(SortItemsF(SubSeq(pb, 1, Len(pb) - 1), wmap), pb[Len(pb)],
                   wmap)

\* the packing loop of propose_batch (lines 232-247) on floats
RECURSIVE PackLoopF(_, _, _, _, _)
PackLoopF(items, i, picked, total, wmap) ==
  IF i > Len(items) THEN [chosen |-> picked, total |-> total]
  ELSE
    LET s == items[i].sku
        q == as_int(items[i].qty, 1)
        unit == piece_weight_kg_f(s, wmap)
        cur == qty_to_tons_f(s, q, wmap)
    IN  IF q <= 0 THEN PackLoopF(items, i + 1, picked, total, wmap)
        ELSE IF FLe(FAdd(total, cur), FInt(TRUCK_MAX_TONS))
        THEN PackLoopF(items, i + 1, (s :> q) @@ picked, FAdd(total, cur),
                       wmap)
        ELSE LET remaining == FSubMax0(FMul(FInt(TRUCK_MAX_TONS), FInt(1000)),
                                       FMul(total, FInt(1000)))
                 allowed == IF unit[1] > 0
                            THEN as_int_f(FDiv(remaining, unit)) ELSE 0
             IN  IF allowed > 0
                 THEN [chosen |-> (s :> allowed) @@ picked,
                       total |-> FAdd(total, qty_to_tons_f(s, allowed, wmap))]
                 ELSE [chosen |-> picked, total |-> total]

\* propose_batch (lines 221-251) on floats
propose_batch_f(pb, wmap) ==
  IF pb = <<>> THEN [can_make |-> FALSE, proposal |-> EmptyDict, tons |-> FZero]
  ELSE
    LET total_pending == batch_tons_f(pb, wmap)
    IN  IF ~FLe(FInt(TRUCK_MIN_TONS), total_pending)
        THEN [can_make |-> FALSE, proposal |-> EmptyDict,
              tons |-> total_pending]
        ELSE LET r == PackLoopF(SortItemsF(pb, wmap), 1, EmptyDict, FZero, wmap)
             IN  IF FLe(FInt(TRUCK_MIN_TONS), r.total)
                 THEN [can_make |-> TRUE, proposal |-> r.chosen,
                       tons |-> r.total]
                 ELSE [can_make |-> FALSE, proposal |-> EmptyDict,
                       tons |-> r.total]

\* ------------------------------------------------------------------ inputs
\* One row of input per SKU: starting inventory Quantity, daily demand
\* Quantity on a day with sales, the ROP row (mu_daily, safety_stock,
\* reorder_point) and the EOQ row (EOQ, unit_weight) when the SKU has one,
\* and the number before "MM" in its label (tenths, -1 when the label has
\* none).
StdTypes ==
  { [oh0 |-> 60, dem |-> 20, has_rop |-> TRUE, mu |-> 0, ss |-> 0,
     rop |-> 50 * PolDen, has_eoq |-> TRUE, eoq |-> 200 * PolDen,
     w |-> 55 * StdDen, lbl |-> -1],
    [oh0 |-> 10, dem |-> 15, has_rop |-> FALSE, mu |-> 0, ss |-> 0,
     rop |-> 0, has_eoq |-> FALSE, eoq |-> 0, w |-> 0, lbl |-> 18 * ThickDen],
    [oh0 |-> 0, dem |-> 70, has_rop |-> TRUE, mu |-> 5 * PolDen + 1, ss |-> 2,
     rop |-> 10 * PolDen, has_eoq |-> TRUE, eoq |-> 100 * PolDen + 1,
     w |-> 0, lbl |-> -1],
    [oh0 |-> -5, dem |-> -3, has_rop |-> TRUE, mu |-> 0, ss |-> 0,
     rop |-> 0, has_eoq |-> TRUE, eoq |-> 2 * PolDen + 1, w |-> -7,
     lbl |-> 0],
    [oh0 |-> 0, dem |-> 0, has_rop |-> FALSE, mu |-> 0, ss |-> 0,
     rop |-> 0, has_eoq |-> FALSE, eoq |-> 0, w |-> 0, lbl |-> -1] }

\* Weight tables whose resolution reaches the 1e-9 of as_int: pieces of
\* 12 t, of 12 t plus one weight unit, and of 5 t; no stock, no demand, an
\* EOQ of 0 or 1 piece.
FineTypes ==
  { [oh0 |-> 0, dem |-> 0, has_rop |-> FALSE, mu |-> 0, ss |-> 0, rop |-> 0,
     has_eoq |-> TRUE, eoq |-> e * PolDen, w |-> w, lbl |-> -1] :
    e \in {0, 1},
    w \in {TruckMax(FineDen) + 1, TruckMax(FineDen), 5000 * FineDen} }

\* the fine tables keep every pending batch under 14 t
FineCap == 14000 * FineDen

RECURSIVE Fits(_, _, _)
Fits(f, S, cap) ==
  IF S = {} THEN TRUE
  ELSE LET x == CHOOSE y \in S : TRUE
       IN  f[x] <= cap /\ Fits(f, S \ {x}, cap - f[x])

InitInputs(typ, den) ==
  /\ inv = [s \in SKUS |-> typ[s].oh0]
  /\ dem = [s \in SKUS |-> typ[s].dem]
  /\ mu_map = [s \in {t \in SKUS : typ[t].has_rop} |-> typ[s].mu]
  /\ ss_map = [s \in {t \in SKUS : typ[t].has_rop} |-> typ[s].ss]
  /\ rop_map = [s \in {t \in SKUS : typ[t].has_rop} |-> typ[s].rop]
  /\ eoq_map = [s \in {t \in SKUS : typ[t].has_eoq} |-> typ[s].eoq]
  /\ weight_map = [s \in {t \in SKUS : typ[t].has_eoq} |-> typ[s].w]
  /\ label_mm = [s \in SKUS |-> typ[s].lbl]
  /\ wden = den

\* state of simulate() on entry to the day loop (lines 189-204)
InitState ==
  /\ interactive \in BOOLEAN
  /\ day = 1
  /\ pc = "arrivals"
  /\ idx = 1
  /\ todays = [s \in SKUS |-> 0]
  /\ on_hand = [s \in SKUS |-> as_int(inv[s], 1)]
  /\ on_order = [s \in SKUS |-> 0]
  /\ backorders = [s \in SKUS |-> 0]
  /\ pending_batch = <<>>
  /\ pos_in_transit = <<>>
  /\ day_demand = 0
  /\ day_shipped = 0
  /\ triggered_today = <<>>
  /\ day_order_placed = FALSE
  /\ day_order_tons = 0
  /\ cum_demand = 0
  /\ cum_shipped = 0
  /\ today_backordered = 0
  /\ today_bo_ratio = <<0, 1>>
  /\ open_backorders_units = 0
  /\ cum_fill_rate = <<100, 1>>
  /\ cum_bo_ratio = <<0, 1>>
  /\ pend_tons = 0
  /\ daily_rows = <<>>
  /\ final_inv = <<>>
  /\ overall_cum_fill = <<0, 1>>
  /\ overall_bo_ratio = <<0, 1>>
  /\ oh_start = on_hand
  /\ bo_start = backorders
  /\ arrived_today = [s \in SKUS |-> 0]
  /\ shipped_today = [s \in SKUS |-> 0]
  /\ short_today = [s \in SKUS |-> 0]
  /\ received = <<>>
  /\ n_orders = 0
  /\ trig_ip = [s \in SKUS |-> -1]
  /\ trig_need = [s \in SKUS |-> -1]
  /\ last_order = EmptyDict
  /\ n_quiet = 0
  /\ n_skips = 0
  /\ ordered = [s \in SKUS |-> 0]
  /\ demanded = [s \in SKUS |-> 0]

\* the input tables hold at most two different kinds of row
TwoKinds(typ) ==
  \A s \in SKUS : s > 2 => typ[s] \in {typ[t] : t \in SKUS \cap {1, 2}}

InitStd ==
  /\ \E typ \in [SKUS -> StdTypes] :
       /\ TwoKinds(typ)
       /\ InitInputs(typ, StdDen)
  /\ InitState

InitFine ==
  /\ \E typ \in [SKUS -> FineTypes] :
       /\ TwoKinds(typ)
       /\ Fits([s \in SKUS |-> as_int(typ[s].eoq, PolDen) * typ[s].w],
               SKUS, FineCap)
       /\ InitInputs(typ, FineDen)
  /\ InitState

\* the Date column on entry to the day loop: the parse is over (the model
\* of the loop numbers the days of the range 1 .. MaxDays)
DatesParsed ==
  /\ raw = <<>>
  /\ lenient = FALSE
  /\ dt_us = <<>>
  /\ dt_eu = <<>>
  /\ choose_eu = FALSE
  /\ chosen_dt = <<>>
  /\ dstep = "chosen"

\* no batch is being weighed in floats
FloatsIdle ==
  /\ f_weight_map = <<>>
  /\ f_pending_batch = <<>>
  /\ f_pend_tons = FZero
  /\ f_order_placed = FALSE
  /\ f_order_tons = FZero
  /\ f_proposal = EmptyDict
  /\ f_row = [pending_batch_tons |-> FZero, order_placed |-> FALSE,
              order_tons |-> FZero]
  /\ f_step = "logged"

Init == (InitStd \/ InitFine) /\ DatesParsed /\ FloatsIdle

\* ----------------------------------------------------------------- actions
\* Receive arrivals, read the day's demand column, reset the day counters
\* (lines 268-285).
Arrivals ==
  /\ pc = "arrivals"
  /\ LET arrivals == ArrivalsOf(pos_in_transit, day)
     IN  /\ on_hand' = ReceiveOnHand(on_hand, arrivals)
         /\ on_order' = ReceiveOnOrder(on_order, arrivals)
         /\ pos_in_transit' = StillInTransit(pos_in_transit, day)
         /\ arrived_today' =
              [s \in SKUS |->
                 SumOver([i \in 1..Len(pos_in_transit) |->
                            IF pos_in_transit[i].eta = day
                               /\ s \in DOMAIN pos_in_transit[i].items
                            THEN pos_in_transit[i].items[s] ELSE 0],
                         1..Len(pos_in_transit))]
         /\ received' =
              [i \in 1..Len(received) |->
                 received[i]
                 + Cardinality({j \in 1..Len(arrivals) : arrivals[j].id = i})]
  /\ \E sales \in BOOLEAN :
       /\ sales \/ n_quiet < MaxQuiet
       /\ todays' = [s \in SKUS |-> IF sales THEN dem[s] ELSE 0]
       /\ n_quiet' = IF sales THEN n_quiet ELSE n_quiet + 1
  /\ day_demand' = 0
  /\ day_shipped' = 0
  /\ triggered_today' = <<>>
  /\ day_order_placed' = FALSE
  /\ day_order_tons' = 0
  /\ idx' = 1
  /\ pc' = "sku"
  /\ oh_start' = on_hand
  /\ bo_start' = backorders
  /\ shipped_today' = [s \in SKUS |-> 0]
  /\ short_today' = [s \in SKUS |-> 0]
  /\ trig_ip' = [s \in SKUS |-> -1]
  /\ trig_need' = [s \in SKUS |-> -1]
  /\ last_order' = EmptyDict
  /\ UNCHANGED <<inputs, day, backorders, pending_batch, cums, rowvals,
                 daily_rows, endvals, n_orders, n_skips, ordered,
                 demanded>>

\* One iteration of "for s in skus": demand, then the trigger check
\* (lines 288-310).
ProcessSku ==
  /\ pc = "sku"
  /\ LET s == idx
         sold == as_int(todays[s], 1)
         f == Fulfil(on_hand[s], sold)
         oh == [on_hand EXCEPT ![s] = f.on_hand]
         bo == [backorders EXCEPT ![s] = backorders[s] + f.short]
         ip == inventory_position(oh, on_order, bo, s)
         need == order_need_qty(oh, on_order, bo, s)
     IN  /\ on_hand' = oh
         /\ backorders' = bo
         /\ day_demand' = day_demand + sold
         /\ day_shipped' = day_shipped + f.shipped
         /\ pending_batch' = UpdatePending(pending_batch, s, ip, need)
         /\ triggered_today' =
              IF Triggered(ip, s) /\ need > 0
              THEN Append(triggered_today, <<s, as_int(need, 1)>>)
              ELSE triggered_today
         /\ shipped_today' = [shipped_today EXCEPT ![s] = f.shipped]
         /\ short_today' = [short_today EXCEPT ![s] = f.short]
         /\ demanded' = [demanded EXCEPT ![s] = demanded[s] + sold]
         /\ trig_ip' = [trig_ip EXCEPT ![s] = ip]
         /\ trig_need' = [trig_need EXCEPT ![s] =
                            IF Triggered(ip, s) THEN need ELSE -1]
  /\ idx' = idx + 1
  /\ pc' = IF idx = NSku THEN "summary" ELSE "sku"
  /\ UNCHANGED <<inputs, day, todays, on_order, pos_in_transit,
                 day_order_placed, day_order_tons, cums, rowvals, daily_rows,
                 endvals, oh_start, bo_start, arrived_today, received,
                 n_orders, last_order, n_quiet, n_skips, ordered>>

\* Cumulative fill and the day's figures (lines 312-322).
Summary ==
  /\ pc = "summary"
  /\ cum_demand' = cum_demand + day_demand
  /\ cum_shipped' = cum_shipped + day_shipped
  /\ today_backordered' = Max2(0, day_demand - day_shipped)
  /\ today_bo_ratio' = TodayBoRatio(today_backordered', day_demand)
  /\ open_backorders_units' = SumOver(backorders, SKUS)
  /\ cum_fill_rate' = CumFillRate(cum_shipped', cum_demand')
  /\ cum_bo_ratio' = HundredMinus(cum_fill_rate')
  /\ pend_tons' = batch_tons(PendingDict(pending_batch), weight_map,
                             label_mm, wden)
  /\ pc' = "propose"
  /\ UNCHANGED <<inputs, day, idx, todays, ledger, pending_batch,
                 pos_in_transit, counters, day_order_placed, day_order_tons,
                 daily_rows, endvals, daysnap, received, n_orders, trig_ip,
                 trig_need, last_order, n_quiet, n_skips, ordered,
                 demanded>>

\* Accepted that takes every reply for a yes
AcceptedAlways(ans) == TRUE

\* if ans == "y" (line 342)
Accepted(ans) == ans = "y"

\* Propose a truck and, when one can be made, take the decision
\* (lines 333-352); p is the one result of the call of line 334.
Propose ==
  /\ pc = "propose"
  /\ \E p \in {propose_batch(pending_batch, weight_map, label_mm, wden)} :
         \E ans \in (IF interactive THEN {"y", "n"} ELSE {"y"}) :
           IF p.can_make /\ Accepted(ans)
           THEN /\ on_order' = PlaceOnOrder(on_order, p.proposal)
                /\ pos_in_transit' =
                     PlaceTransit(pos_in_transit, day, p.proposal,
                                  n_orders + 1)
                /\ pending_batch' = PlacePending(pending_batch, p.proposal)
                /\ day_order_placed' = TRUE
                /\ day_order_tons' = p.tons
                /\ n_orders' = n_orders + 1
                /\ received' = Append(received, 0)
                /\ last_order' = p.proposal
                /\ ordered' = [s \in SKUS |->
                                 IF s \in DOMAIN p.proposal
                                 THEN ordered[s] + as_int(p.proposal[s], 1)
                                 ELSE ordered[s]]
                /\ ans = "y" \/ n_skips < MaxSkips
                /\ n_skips' = IF ans = "y" THEN n_skips ELSE n_skips + 1
           ELSE /\ ans = "y" \/ (p.can_make /\ n_skips < MaxSkips)
                /\ n_skips' = IF p.can_make THEN n_skips + 1 ELSE n_skips
                /\ UNCHANGED <<on_order, pos_in_transit, pending_batch,
                               day_order_placed, day_order_tons, n_orders,
                               received, last_order, ordered>>
  /\ pc' = "log"
  /\ UNCHANGED <<inputs, day, idx, todays, on_hand, backorders, counters,
                 cums, rowvals, daily_rows, endvals, daysnap, trig_ip,
                 trig_need, n_quiet, demanded>>

\* the row appended to daily_rows (lines 355-370)
DailyRow ==
  [Date |-> day,
   demand_total |-> day_demand,
   shipped_total |-> day_shipped,
   backordered_today |-> today_backordered,
   backorder_ratio_today_pct |-> Round2(today_bo_ratio),
   open_backorders_units |-> open_backorders_units,
   cum_demand |-> cum_demand,
   cum_shipped |-> cum_shipped,
   cum_fill_rate_pct |-> Round2(cum_fill_rate),
   cum_backorder_ratio_pct |-> Round2(cum_bo_ratio),
   pending_batch_tons |-> Round3(pend_tons, wden),
   triggers_count |-> Len(triggered_today),
   order_placed |-> day_order_placed,
   order_tons |-> IF day_order_placed THEN Round3(day_order_tons, wden)
                  ELSE 0]

\* LastDay that ends the loop one day early
LastDayEarly(d) == d >= MaxDays - 1

\* for day in all_days: the loop ends after day MaxDays (line 267)
LastDay(d) == d = MaxDays

\* Log the daily row and move to the next day of all_days.
LogRow ==
  /\ pc = "log"
  /\ daily_rows' = Append(daily_rows, DailyRow)
  /\ day' = day + 1
  /\ pc' = IF LastDay(day) THEN "end" ELSE "arrivals"
  /\ UNCHANGED <<inputs, idx, todays, ledger, pending_batch, pos_in_transit,
                 counters, day_order_placed, day_order_tons, cums, rowvals,
                 endvals, daysnap, received, n_orders, trig_ip, trig_need,
                 last_order, n_quiet, n_skips, ordered, demanded>>

\* End summary (lines 375-392).
EndSummary ==
  /\ pc = "end"
  /\ final_inv' = [s \in SKUS |->
                     [final_on_hand |-> as_int(on_hand[s], 1),
                      on_order |-> as_int(on_order[s], 1),
                      backorders |-> as_int(backorders[s], 1)]]
  /\ overall_cum_fill' =
       OverallCumFill(daily_rows[Len(daily_rows)].cum_shipped,
                      daily_rows[Len(daily_rows)].cum_demand)
  /\ overall_bo_ratio' = HundredMinus(overall_cum_fill')
  /\ pc' = "done"
  /\ UNCHANGED <<inputs, day, idx, todays, ledger, pending_batch,
                 pos_in_transit, counters, day_order_placed, day_order_tons,
                 cums, rowvals, daily_rows, daysnap, received, n_orders,
                 trig_ip, trig_need, last_order, n_quiet, n_skips,
                 ordered, demanded>>

Next == Arrivals \/ ProcessSku \/ Summary \/ Propose \/ LogRow \/ EndSummary

Spec == Init /\ [][Next]_vars

\* The run without an operator: every statement of the loop is executed in
\* turn and none waits for input, so a step that can be taken is taken.
InitAuto == Init /\ ~interactive

AutoSpec == InitAuto /\ [][Next]_vars /\ WF_vars(Next)

\* ---------------------------------------------------- _smart_parse_dates
\* numbers a row of the Date column starts with
FieldVals == {1, 2, 5, 12, 31}

RowKey(r) == r[1] * 100 + r[2]

\* Date columns of up to maxn different rows, in ascending or in descending
\* order of their text
DateColumns(maxn) ==
  UNION {{r \in [1..n -> FieldVals \X FieldVals] :
            \/ \A i \in 1..(n - 1) : RowKey(r[i]) < RowKey(r[i + 1])
            \/ \A i \in 1..(n - 1) : RowKey(r[i]) > RowKey(r[i + 1])} :
         n \in 1..maxn}

\* the tables of a run whose SKUs have no stock, no sales, no policy rows
IdleTables ==
  /\ \E typ \in [SKUS -> {t \in StdTypes :
                            t.oh0 = 0 /\ t.dem = 0 /\ ~t.has_rop
                            /\ ~t.has_eoq}] :
       InitInputs(typ, StdDen)
  /\ InitState
  /\ ~interactive

InitDates ==
  /\ IdleTables
  /\ FloatsIdle
  /\ raw \in DateColumns(MaxRows)
  /\ lenient \in BOOLEAN
  /\ dt_us = <<>>
  /\ dt_eu = <<>>
  /\ choose_eu = FALSE
  /\ chosen_dt = <<>>
  /\ dstep = "raw"

\* the simulation's own state is not touched
SimIdle ==
  UNCHANGED <<tables, day, pc, idx, todays, ledger, pending_batch,
              pos_in_transit, counters, day_order_placed, day_order_tons,
              cums, rowvals, daily_rows, endvals, daysnap, received,
              n_orders, trig_ip, trig_need, last_order, n_quiet, n_skips,
              ordered, demanded>>

\* lines 99-100
ParseBoth ==
  /\ dstep = "raw"
  /\ dt_us' = to_datetime(raw, FALSE, lenient)
  /\ dt_eu' = to_datetime(raw, TRUE, lenient)
  /\ dstep' = "parsed"
  /\ UNCHANGED <<raw, lenient, choose_eu, chosen_dt>>
  /\ SimIdle
  /\ UNCHANGED floats

\* lines 110-112
ChooseLocale ==
  /\ dstep = "parsed"
  /\ choose_eu' = ScoreGreater(score(dt_eu), score(dt_us))
  /\ chosen_dt' = IF choose_eu' THEN dt_eu ELSE dt_us
  /\ dstep' = "chosen"
  /\ UNCHANGED <<raw, lenient, dt_us, dt_eu>>
  /\ SimIdle
  /\ UNCHANGED floats

DateNext == ParseBoth \/ ChooseLocale

DateSpec == InitDates /\ [][DateNext]_vars

\* ------------------------------------- one day of the batcher, in floats
\* unit weights of the EOQ table (kg, as decimal literals n / d)
WeightLits == {<<448, 100>>, <<40, 1>>, <<56, 1>>, <<2500, 1>>}

\* quantities the trigger check has left pending
PendingQtys == {25, 47, 143, 200}

\* The state after the trigger checks of a day (line 310): up to MaxItems
\* SKUs, in the order of skus, each with a unit weight and a pending need.
InitFloats ==
  /\ IdleTables
  /\ DatesParsed
  /\ \E n \in 1..MaxItems :
       /\ \E w \in [1..n -> WeightLits] :
            f_weight_map = [s \in 1..n |-> FRat(w[s][1], w[s][2])]
       /\ \E q \in [1..n -> PendingQtys] :
            f_pending_batch = [s \in 1..n |-> [sku |-> s, qty |-> q[s]]]
  /\ f_pend_tons = FZero
  /\ f_order_placed = FALSE
  /\ f_order_tons = FZero
  /\ f_proposal = EmptyDict
  /\ f_row = [pending_batch_tons |-> FZero, order_placed |-> FALSE,
              order_tons |-> FZero]
  /\ f_step = "summary"

\* pend_tons = batch_tons(pending_batch) (line 324)
FSummary ==
  /\ f_step = "summary"
  /\ f_pend_tons' = batch_tons_f(f_pending_batch, f_weight_map)
  /\ f_step' = "propose"
  /\ UNCHANGED <<f_weight_map, f_pending_batch, f_order_placed, f_order_tons,
                 f_proposal, f_row>>
  /\ SimIdle
  /\ UNCHANGED dates

\* lines 333-346 without an operator: ans = "y"
FPropose ==
  /\ f_step = "propose"
  /\ LET p == propose_batch_f(f_pending_batch, f_weight_map)
     IN  IF p.can_make
         THEN /\ f_pending_batch' =
                   PlacePending(f_pending_batch, p.proposal)
              /\ f_order_placed' = TRUE
              /\ f_order_tons' = p.tons
              /\ f_proposal' = p.proposal
         ELSE UNCHANGED <<f_pending_batch, f_order_placed, f_order_tons,
                          f_proposal>>
  /\ f_step' = "log"
  /\ UNCHANGED <<f_weight_map, f_pend_tons, f_row>>
  /\ SimIdle
  /\ UNCHANGED dates

\* the three float columns of the daily row (lines 366-369)
FLogRow ==
  /\ f_step = "log"
  /\ f_row' = [pending_batch_tons |-> Round3F(f_pend_tons),
               order_placed |-> f_order_placed,
               order_tons |-> IF f_order_placed THEN Round3F(f_order_tons)
                              ELSE FZero]
  /\ f_step' = "logged"
  /\ UNCHANGED <<f_weight_map, f_pending_batch, f_pend_tons, f_order_placed,
                 f_order_tons, f_proposal>>
  /\ SimIdle
  /\ UNCHANGED dates

FloatNext == FSummary \/ FPropose \/ FLogRow

FloatSpec == InitFloats /\ [][FloatNext]_vars

\* ------------------------------------------------------------------ claims
EndOfDay == pc \in {"summary", "propose", "log"}

BeforeDecision == pc \in {"sku", "summary", "propose"}

Sold(s) == as_int(todays[s], 1)

UnclampedPosition(s) == on_hand[s] + on_order[s] - backorders[s]

\* C1: in every state of the day loop, every SKU's on_hand, on_order and
\* backorder is a whole number >= 0.
C1_NonNegativity ==
  \A s \in SKUS :
    on_hand[s] \in Nat /\ on_order[s] \in Nat /\ backorders[s] \in Nat

\* an order has just been committed and some SKU holds received stock,
\* units on order and open backorder at the same time
C1_Witness ==
  /\ pc = "log"
  /\ day_order_placed
  /\ \E s \in SKUS : on_hand[s] > 0 /\ on_order[s] > 0 /\ backorders[s] > 0

\* C2: at the end of the day's SKU loop, on_hand = on_hand at the start of
\* the day + arrivals - shipped, and backorder = backorder at the start +
\* (demand - shipped) when demand exceeds the stock after arrivals, else
\* unchanged.
C2_Conservation ==
  EndOfDay =>
    \A s \in SKUS :
      /\ on_hand[s] = oh_start[s] + arrived_today[s] - shipped_today[s]
      /\ backorders[s] =
           IF Sold(s) > oh_start[s] + arrived_today[s]
           THEN bo_start[s] + (Sold(s) - shipped_today[s])
           ELSE bo_start[s]

\* a day on which one SKU received a PO and one SKU ran short
C2_Witness ==
  /\ EndOfDay
  /\ \E s \in SKUS : arrived_today[s] > 0
  /\ \E s \in SKUS : short_today[s] > 0 /\ shipped_today[s] > 0

\* C3: an order placed today weighs at least TRUCK_MIN_TONS and at most
\* TRUCK_MAX_TONS.
C3_BatchWeightBound ==
  day_order_placed =>
    /\ batch_tons(last_order, weight_map, label_mm, wden) >= TruckMin(wden)
    /\ batch_tons(last_order, weight_map, label_mm, wden) <= TruckMax(wden)

\* C4: in every step a SKU's pending quantity does not decrease, except in
\* the step that commits an order containing the SKU, where it becomes 0.
C4_PendingMonotone ==
  [][\A s \in SKUS :
       \/ PendingQty(pending_batch', s) >= PendingQty(pending_batch, s)
       \/ /\ pc = "propose"
          /\ day_order_placed'
          /\ s \in DOMAIN last_order'
          /\ PendingQty(pending_batch', s) = 0]_vars

\* an order was committed for one SKU while another SKU stays pending
C4_Witness ==
  /\ pc = "log"
  /\ day_order_placed
  /\ \E s \in DOMAIN last_order : PendingQty(pending_batch, s) = 0
  /\ \E t \in SKUS \ DOMAIN last_order : PendingQty(pending_batch, t) > 0

\* C5: every purchase order is received at most once, and a received
\* purchase order is no longer in the open-order list.
C5_NoDuplicateReceipt ==
  \A i \in 1..Len(received) :
    /\ received[i] <= 1
    /\ received[i] >= 1 =>
         \A j \in 1..Len(pos_in_transit) : pos_in_transit[j].id # i

\* a PO has been received and the loop has run on to a later day
C5_Witness ==
  \E i \in 1..Len(received) :
    received[i] = 1 /\ Len(daily_rows) >= DEFAULT_LEAD_DAYS + 1

\* C6: in every daily row 0 <= cum_shipped <= cum_demand, the cumulative
\* fill rate is in [0, 100], is 100 when cum_demand is 0, and the
\* cumulative backorder ratio is 100 minus it (rates in hundredths).
C6_FillRateBound ==
  \A i \in 1..Len(daily_rows) :
    LET r == daily_rows[i]
    IN  /\ 0 <= r.cum_shipped /\ r.cum_shipped <= r.cum_demand
        /\ 0 <= r.cum_fill_rate_pct /\ r.cum_fill_rate_pct <= 10000
        /\ r.cum_demand = 0 => r.cum_fill_rate_pct = 10000
        /\ r.cum_demand > 0 =>
             r.cum_fill_rate_pct =
               RoundHalfEven(r.cum_shipped * 10000, r.cum_demand)
        /\ r.cum_backorder_ratio_pct = 10000 - r.cum_fill_rate_pct

\* a row written before any demand, and a later row with a fill rate
\* strictly between 0 and 100
C6_Witness ==
  \E i, j \in 1..Len(daily_rows) :
    /\ daily_rows[i].cum_demand = 0
    /\ daily_rows[j].cum_fill_rate_pct > 0
    /\ daily_rows[j].cum_fill_rate_pct < 10000

\* C7: the overall cumulative fill rate equals the last daily row's, and is
\* 100 (backorder ratio 0) when the total demand is zero.
C7_OverallMatchesDaily ==
  pc = "done" =>
    /\ Round2(overall_cum_fill) =
         daily_rows[Len(daily_rows)].cum_fill_rate_pct
    /\ daily_rows[Len(daily_rows)].cum_demand = 0 =>
         /\ Round2(overall_cum_fill) = 10000
         /\ Round2(overall_bo_ratio) = 0

\* C8: the position the trigger check used for a SKU is
\* on_hand + on_order - backorder, negative when backorder is the larger.
C8_PositionUnclamped ==
  BeforeDecision =>
    \A s \in SKUS : trig_ip[s] # -1 => trig_ip[s] = UnclampedPosition(s)

\* C9: every day every SKU is evaluated once its demand is applied; its
\* pending entry changes only if the position after the demand is at most
\* the reorder point, and then becomes the need whenever the need exceeds
\* the quantity already pending.
C9_TriggerRule ==
  [][pc = "sku" =>
       LET s == idx
           ip == inventory_position(on_hand', on_order', backorders', s)
           low == ip * PolDen <= Get(rop_map, s)
           lowraw == (on_hand'[s] + on_order'[s] - backorders'[s]) * PolDen
                       <= Get(rop_map, s)
           need == order_need_qty(on_hand', on_order', backorders', s)
       IN  /\ on_hand'[s] = on_hand[s] - Min2(on_hand[s], Sold(s))
           /\ low = lowraw
           /\ pending_batch' # pending_batch => low
           /\ (low /\ need > PendingQty(pending_batch, s)) =>
                PendingQty(pending_batch', s) = need
           /\ \A t \in SKUS \ {s} :
                PendingQty(pending_batch', t) = PendingQty(pending_batch, t)
           /\ pc' = "summary" => \A t \in SKUS : trig_ip'[t] # -1]_vars

\* on a day without demand a SKU's check created its pending entry
C9_Witness ==
  /\ pc = "summary"
  /\ day_demand = 0
  /\ \E s \in SKUS :
       /\ trig_need[s] > 0
       /\ PendingQty(pending_batch, s) = trig_need[s]
       /\ Len(triggered_today) > 0

\* C10: the need computed for a triggered SKU is
\* max(EOQ, backorder + floor(max(0, mu * 45 + ss - position))), with the
\* position on_hand + on_order - backorder.
C10_NeedFormula ==
  BeforeDecision =>
    \A s \in SKUS :
      trig_need[s] # -1 =>
        trig_need[s] =
          Max2(Get(eoq_map, s) \div PolDen,
               backorders[s]
               + Max2(0, TargetCover(s) - UnclampedPosition(s) * PolDen)
                   \div PolDen)

\* C11: a PO committed on day d is appended with eta d + 7; on_hand only
\* grows in the arrivals step, and that step moves every item of every PO
\* whose eta is the day from on_order into on_hand at once and drops those
\* POs, and only those, from the open list; no open PO has a passed eta.
C11_Lifecycle ==
  [][/\ (pc = "propose" /\ day_order_placed') =>
          /\ Len(pos_in_transit') = Len(pos_in_transit) + 1
          /\ pos_in_transit'[Len(pos_in_transit')].eta
               = day + DEFAULT_LEAD_DAYS
          /\ pos_in_transit'[Len(pos_in_transit')].items = last_order'
     /\ pc # "arrivals" => \A s \in SKUS : on_hand'[s] <= on_hand[s]
     /\ pc = "arrivals" =>
          /\ \A s \in SKUS :
               /\ on_hand'[s] = on_hand[s] + arrived_today'[s]
               /\ on_order'[s] = on_order[s] - arrived_today'[s]
               /\ arrived_today'[s] =
                    SumOver([i \in 1..Len(pos_in_transit) |->
                               IF pos_in_transit[i].eta = day
                                  /\ s \in DOMAIN pos_in_transit[i].items
                               THEN pos_in_transit[i].items[s] ELSE 0],
                            1..Len(pos_in_transit))
          /\ \A i \in 1..Len(pos_in_transit') :
               pos_in_transit'[i].eta > day
          /\ Len(pos_in_transit') =
               Cardinality({i \in 1..Len(pos_in_transit) :
                              pos_in_transit[i].eta # day})
     /\ \A i \in 1..Len(pos_in_transit) : pos_in_transit[i].eta >= day]_vars

\* the PO committed on day 1 has just been received on day 8
C11_Witness ==
  /\ pc = "sku"
  /\ idx = 1
  /\ day = 1 + DEFAULT_LEAD_DAYS
  /\ daily_rows[1].order_placed
  /\ \E s \in SKUS : arrived_today[s] > 0 /\ on_hand[s] >= arrived_today[s]
  /\ \A i \in 1..Len(pos_in_transit) : pos_in_transit[i].id # 1

\* C12: the step that commits a batch raises on_order of every SKU of the
\* batch by the batch quantity, appends one PO holding those quantities,
\* removes exactly the batch's SKUs from pending_batch and leaves the other
\* pending entries, on_hand and backorders as they were.
C12_CommitEffect ==
  [][(pc = "propose" /\ day_order_placed') =>
       LET b == last_order'
       IN  /\ b = propose_batch(pending_batch, weight_map, label_mm,
                                wden).proposal
           /\ DOMAIN b # {}
           /\ DOMAIN b \subseteq PendingKeys(pending_batch)
           /\ \A s \in SKUS :
                on_order'[s] =
                  on_order[s] + (IF s \in DOMAIN b THEN b[s] ELSE 0)
           /\ Len(pos_in_transit') = Len(pos_in_transit) + 1
           /\ SubSeq(pos_in_transit', 1, Len(pos_in_transit))
                = pos_in_transit
           /\ pos_in_transit'[Len(pos_in_transit')].items = b
           /\ PendingKeys(pending_batch') =
                PendingKeys(pending_batch) \ DOMAIN b
           /\ \A s \in SKUS \ DOMAIN b :
                PendingQty(pending_batch', s) = PendingQty(pending_batch, s)
           /\ on_hand' = on_hand
           /\ backorders' = backorders]_vars

\* a batch was committed for a SKU that already had pieces on order in an
\* earlier, still open PO
C12_Witness ==
  /\ pc = "log"
  /\ day_order_placed
  /\ Len(pos_in_transit) >= 2
  /\ pos_in_transit[Len(pos_in_transit)].items = last_order
  /\ \E s \in DOMAIN last_order : on_order[s] > last_order[s]

\* C13: when the operator is asked and the reply is not "y", the decision
\* step leaves on_hand, on_order, backorders, the open POs and the pending
\* batch as they were and places no order; the row then logged records what
\* the decision left, and pending_batch reaches the next day's SKU loop
\* unchanged.  Only the interactive mode ever declines.
C13_RejectionFrame ==
  [][/\ (pc = "propose" /\ n_skips' # n_skips) =>
          /\ interactive
          /\ propose_batch(pending_batch, weight_map, label_mm,
                           wden).can_make
          /\ ~day_order_placed'
          /\ UNCHANGED <<on_hand, on_order, backorders, pos_in_transit,
                         pending_batch>>
     /\ pc = "log" =>
          /\ daily_rows'[Len(daily_rows')].order_placed = day_order_placed
          /\ daily_rows'[Len(daily_rows')].order_tons # 0 => day_order_placed
          /\ pending_batch' = pending_batch
     /\ pc = "arrivals" => pending_batch' = pending_batch]_vars

\* the operator has declined a truck that could be made: no order today
\* and the truck is still there to be proposed
C13_Witness ==
  /\ interactive
  /\ pc = "log"
  /\ n_skips > 0
  /\ ~day_order_placed
  /\ propose_batch(pending_batch, weight_map, label_mm, wden).can_make

\* the batch the packing rule describes: the pending SKUs heaviest first,
\* taken whole up to the first one that would pass TRUCK_MAX_TONS, that one
\* at floor(remaining capacity / unit weight) pieces, none behind it
GreedyFloor(pb) ==
  LET items == SortItems(pb, weight_map, label_mm, wden)
      n == Len(items)
      Unit(i) == piece_weight_kg(items[i].sku, weight_map, label_mm, wden)
      W(i) == items[i].qty * Unit(i)
      Cum(i) == SumOver([j \in 1..i |-> W(j)], 1..i)
      over == {i \in 1..n : Cum(i) > TruckMax(wden)}
      k == IF over = {} THEN n + 1
           ELSE CHOOSE i \in over : \A j \in over : i <= j
      part == IF k <= n THEN (TruckMax(wden) - Cum(k - 1)) \div Unit(k)
              ELSE 0
      whole == {items[j].sku : j \in 1..(k - 1)}
      last == IF part > 0 THEN {items[k].sku} ELSE {}
  IN  [sorted |-> \A i \in 1..(n - 1) : W(i) >= W(i + 1),
       pending |-> Cum(n),
       chosen |-> [s \in whole \cup last |->
                     IF s \in whole THEN PendingQty(pb, s) ELSE part],
       packed |-> Cum(k - 1) + (IF part > 0 THEN part * Unit(k) ELSE 0)]

\* C14: propose_batch proposes the batch of the packing rule when the
\* pending weight and the packed weight both reach TRUCK_MIN_TONS, and
\* nothing otherwise.
C14_GreedyShape ==
  LET p == propose_batch(pending_batch, weight_map, label_mm, wden)
      g == GreedyFloor(pending_batch)
  IN  /\ g.sorted
      /\ IF g.pending >= TruckMin(wden) /\ g.packed >= TruckMin(wden)
         THEN p.can_make /\ p.proposal = g.chosen /\ p.tons = g.packed
         ELSE ~p.can_make /\ p.proposal = EmptyDict

\* C15: the day's steps run in the order arrivals, SKU 1 .. SKU NSku,
\* summary, proposal; a SKU ships out of the stock left by the arrivals, its
\* trigger check uses the ledger left by its own shipment, and the proposal
\* is made from a pending batch that holds every need found that day.
C15_DayOrder ==
  [][/\ pc = "arrivals" => pc' = "sku" /\ idx' = 1
     /\ pc = "sku" =>
          LET s == idx
          IN  /\ shipped_today'[s] =
                   Min2(Sold(s), oh_start[s] + arrived_today[s])
              /\ on_hand'[s] = on_hand[s] - shipped_today'[s]
              /\ trig_ip'[s] =
                   Max2(0, on_hand'[s] + on_order'[s] - backorders'[s])
              /\ trig_need'[s] > 0 =>
                   PendingQty(pending_batch', s) >= trig_need'[s]
              /\ pc' = IF s = NSku THEN "summary" ELSE "sku"
              /\ idx' = s + 1
     /\ pc = "summary" => pc' = "propose"
     /\ pc = "propose" =>
          /\ pc' = "log"
          /\ \A s \in SKUS :
               /\ trig_ip[s] # -1
               /\ trig_need[s] > 0 =>
                    PendingQty(pending_batch, s) >= trig_need[s]
          /\ day_order_placed' =>
               last_order' = propose_batch(pending_batch, weight_map,
                                           label_mm, wden).proposal]_vars

\* pieces received this morning were shipped the same day, the SKU's check
\* then found a need, and the order placed that day carries the SKU
C15_Witness ==
  /\ pc = "log"
  /\ day_order_placed
  /\ \E s \in DOMAIN last_order :
       /\ arrived_today[s] > 0
       /\ shipped_today[s] > oh_start[s]
       /\ trig_need[s] > 0

\* C16: without an operator the loop reaches its end, and by then it has
\* logged one row per day 1 .. MaxDays, in ascending order; until then the
\* rows logged are those of the days 1 .. day - 1, each once.
C16_Termination ==
  /\ [](/\ Len(daily_rows) = (IF pc \in {"end", "done"} THEN MaxDays
                              ELSE day - 1)
        /\ \A i \in 1..Len(daily_rows) : daily_rows[i].Date = i
        /\ pc \notin {"end", "done"} => day \in 1..MaxDays)
  /\ <>[](/\ pc = "done"
          /\ Len(daily_rows) = MaxDays
          /\ \A i \in 1..MaxDays : daily_rows[i].Date = i)

\* the loop has ended and one of the rows is a day without any demand
C16_Witness ==
  /\ ~interactive
  /\ pc = "done"
  /\ Len(daily_rows) = MaxDays
  /\ \E i \in 1..MaxDays : daily_rows[i].demand_total = 0
  /\ \E i \in 1..MaxDays : daily_rows[i].order_placed

\* C17: a SKU whose demand exceeds its on_hand ships exactly its on_hand,
\* ends with on_hand 0 and has the shortfall added to its backorder; the
\* backorder is carried unchanged to the SKU's next check, and the need of
\* a triggered SKU is max(EOQ, backorder + gap), the gap taken from the
\* position the check used.
C17_BackorderCarried ==
  [][/\ pc = "sku" =>
          LET s == idx
              gap == Max2(0, TargetCover(s) - trig_ip'[s] * PolDen)
                       \div PolDen
          IN  /\ Sold(s) > on_hand[s] =>
                   /\ shipped_today'[s] = on_hand[s]
                   /\ day_shipped' = day_shipped + on_hand[s]
                   /\ on_hand'[s] = 0
                   /\ short_today'[s] = Sold(s) - on_hand[s]
                   /\ backorders'[s] = backorders[s] + short_today'[s]
              /\ trig_need'[s] # -1 =>
                   /\ trig_need'[s] =
                        Max2(Get(eoq_map, s) \div PolDen,
                             backorders'[s] + gap)
                   /\ trig_need'[s] > 0 =>
                        PendingQty(pending_batch', s) >= backorders'[s] + gap
              /\ \A t \in SKUS \ {s} : backorders'[t] = backorders[t]
     /\ pc # "sku" => backorders' = backorders]_vars

\* on_hand 10 and demand 15 left 5 backordered on day 1; on day 2 the SKU
\* ran short again and its need is the whole backorder, above its EOQ
C17_Witness ==
  /\ pc = "summary"
  /\ day = 2
  /\ \E s \in SKUS :
       /\ inv[s] = 10
       /\ dem[s] = 15
       /\ bo_start[s] = 5
       /\ daily_rows[1].shipped_total >= 10
       /\ short_today[s] > 0
       /\ trig_need[s] = backorders[s]
       /\ trig_need[s] > Get(eoq_map, s) \div PolDen
       /\ PendingQty(pending_batch, s) = trig_need[s]

\* the scenario's tables: SKU s has reorder point 50, EOQ 200, mean demand
\* and safety stock 0, 60 pieces in stock, sales of 20 on every day so far,
\* 200 pieces weigh a truck; no other SKU has stock, sales or a need; no
\* operator is asked
Scenario(s) ==
  /\ ~interactive
  /\ n_quiet = 0
  /\ inv[s] = 60
  /\ dem[s] = 20
  /\ s \in DOMAIN rop_map
  /\ rop_map[s] = 50 * PolDen
  /\ mu_map[s] = 0
  /\ ss_map[s] = 0
  /\ Get(eoq_map, s) = 200 * PolDen
  /\ qty_to_tons(s, 200, weight_map, label_mm, wden) >= TruckMin(wden)
  /\ qty_to_tons(s, 200, weight_map, label_mm, wden) <= TruckMax(wden)
  /\ \A t \in SKUS \ {s} :
       /\ inv[t] <= 0
       /\ dem[t] <= 0
       /\ Get(eoq_map, t) = 0
       /\ TargetCover(t) = 0

\* C18: in the scenario, day 1 leaves on_hand 40, the position 40 triggers
\* and 200 is pending; the order of 200 is placed on day 1 and on_order is
\* 200; nothing arrives on days 1 to 7, and the arrivals of day 8 put the
\* 200 pieces into on_hand.
C18_BasicScenario ==
  \A s \in SKUS :
    Scenario(s) =>
      /\ (day = 1 /\ pc \in {"summary", "propose"}) =>
           /\ on_hand[s] = 40
           /\ trig_ip[s] = 40
           /\ trig_need[s] = 200
           /\ PendingDict(pending_batch) = (s :> 200)
      /\ (day = 1 /\ pc = "log") =>
           /\ day_order_placed
           /\ last_order = (s :> 200)
           /\ on_order[s] = 200
           /\ pending_batch = <<>>
      /\ (day \in 2..DEFAULT_LEAD_DAYS
          \/ (day = 1 + DEFAULT_LEAD_DAYS /\ pc = "arrivals")) =>
           /\ on_order[s] = 200
           /\ on_hand[s] <= 40
           /\ arrived_today[s] = 0
           /\ received = <<0>>
           /\ Len(pos_in_transit) = 1
           /\ pos_in_transit[1].eta = 1 + DEFAULT_LEAD_DAYS
      /\ (day = 1 + DEFAULT_LEAD_DAYS /\ pc = "sku" /\ idx = 1) =>
           /\ arrived_today[s] = 200
           /\ on_hand[s] = oh_start[s] + 200
           /\ on_order[s] = 0
           /\ pos_in_transit = <<>>

\* the scenario on the morning of day 8, the 200 pieces just received
C18_Witness ==
  \E s \in SKUS :
    /\ Scenario(s)
    /\ day = 1 + DEFAULT_LEAD_DAYS
    /\ pc = "sku"
    /\ idx = 1
    /\ on_hand[s] = 200
    /\ daily_rows[1].order_placed

\* C19: the arrivals step leaves every SKU's backorder as it was and puts
\* the whole received quantity into on_hand, whatever the open backorder;
\* of the ledger and the pending batch it changes on_hand and on_order only,
\* and those only for the SKUs of the POs received.
C19_ArrivalsKeepBackorders ==
  [][pc = "arrivals" =>
       /\ backorders' = backorders
       /\ pending_batch' = pending_batch
       /\ \A s \in SKUS :
            /\ on_hand'[s] - on_hand[s] = arrived_today'[s]
            /\ on_order[s] - on_order'[s] = arrived_today'[s]
            /\ arrived_today'[s] =
                 SumOver([i \in 1..Len(pos_in_transit) |->
                            IF pos_in_transit[i].eta = day
                               /\ s \in DOMAIN pos_in_transit[i].items
                            THEN pos_in_transit[i].items[s] ELSE 0],
                         1..Len(pos_in_transit))]_vars

\* a SKU has just received more pieces than its open backorder, and the
\* backorder is still open
C19_Witness ==
  /\ pc = "sku"
  /\ idx = 1
  /\ \E s \in SKUS :
       /\ backorders[s] > 0
       /\ arrived_today[s] > backorders[s]
       /\ backorders[s] = bo_start[s]
       /\ on_hand[s] = oh_start[s] + arrived_today[s]

\* C20: the per-piece weight of every SKU, whatever its weight-table entry
\* and its label, is strictly greater than zero.
C20_UnitWeightPositive ==
  \A s \in SKUS : piece_weight_kg(s, weight_map, label_mm, wden) > 0

MixedRows ==
  \E i, j \in 1..Len(chosen_dt) :
    /\ chosen_dt[i] # NaT
    /\ chosen_dt[j] # NaT
    /\ chosen_dt[i] = MonthFirst(raw[i])
    /\ chosen_dt[i] # DayFirst(raw[i])
    /\ chosen_dt[j] = DayFirst(raw[j])
    /\ chosen_dt[j] # MonthFirst(raw[j])

\* the choice follows the scores: day first when its dates span fewer days,
\* or as many with a higher share in the top months; month first otherwise
ChoiceByScore ==
  /\ choose_eu =
       (\/ score(dt_eu).span < score(dt_us).span
        \/ /\ score(dt_eu).span = score(dt_us).span
           /\ score(dt_eu).top * score(dt_us).n
                > score(dt_us).top * score(dt_eu).n)
  /\ chosen_dt = IF choose_eu THEN dt_eu ELSE dt_us

C23_OnOrderIsOpenPOs ==
  /\ \A s \in SKUS :
       on_order[s] =
         SumOver([i \in 1..Len(pos_in_transit) |->
                    IF s \in DOMAIN pos_in_transit[i].items
                    THEN pos_in_transit[i].items[s] ELSE 0],
                 1..Len(pos_in_transit))
  /\ pc = "done" =>
       /\ \A i \in 1..Len(pos_in_transit) : pos_in_transit[i].eta > MaxDays
       /\ \A s \in SKUS :
            final_inv[s].on_order =
              SumOver([i \in 1..Len(pos_in_transit) |->
                         IF s \in DOMAIN pos_in_transit[i].items
                         THEN pos_in_transit[i].items[s] ELSE 0],
                      1..Len(pos_in_transit))

\* the run has ended with one PO received and two still open, one SKU in
\* both of the open ones
C23_Witness ==
  /\ pc = "done"
  /\ Len(pos_in_transit) >= 2
  /\ \E i \in 1..Len(received) : received[i] = 1
  /\ \E s \in SKUS :
       /\ s \in DOMAIN pos_in_transit[1].items
       /\ s \in DOMAIN pos_in_transit[2].items
       /\ final_inv[s].on_order > pos_in_transit[1].items[s]

\* C24: in every daily row open_backorders_units = cum_demand - cum_shipped,
\* and backordered_today is the sum over the SKUs of that day's shortfall.
C24_RowBackorders ==
  /\ \A i \in 1..Len(daily_rows) :
       daily_rows[i].open_backorders_units =
         daily_rows[i].cum_demand - daily_rows[i].cum_shipped
  /\ (pc \in {"arrivals", "end"} /\ Len(daily_rows) > 0) =>
       daily_rows[Len(daily_rows)].backordered_today =
         SumOver([s \in SKUS |-> Sold(s) - shipped_today[s]], SKUS)

\* a row has just been logged for a day on which two SKUs fell short while
\* backorders of earlier days were still open
C24_Witness ==
  /\ pc = "arrivals"
  /\ Len(daily_rows) > 1
  /\ \A s \in SKUS : Sold(s) > shipped_today[s]
  /\ daily_rows[Len(daily_rows)].backordered_today > 0
  /\ daily_rows[Len(daily_rows)].open_backorders_units >
       daily_rows[Len(daily_rows)].backordered_today

\* C25: no step lowers the backorder of a SKU, and open_backorders_units
\* does not decrease from one daily row to the next.
C25_BackorderMonotone ==
  [][/\ \A s \in SKUS : backorders'[s] >= backorders[s]
     /\ \A i \in 1..(Len(daily_rows') - 1) :
          daily_rows'[i + 1].open_backorders_units >=
            daily_rows'[i].open_backorders_units]_vars

\* a PO has arrived for a SKU with an open backorder, its stock is back, and
\* the rows logged so far show the backorder growing and then staying
C25_Witness ==
  /\ pc = "sku"
  /\ \E s \in SKUS :
       /\ arrived_today[s] > 0
       /\ backorders[s] > 0
       /\ on_hand[s] > 0
  /\ \E i \in 1..(Len(daily_rows) - 1) :
       daily_rows[i + 1].open_backorders_units >
         daily_rows[i].open_backorders_units
  /\ \E i \in 1..(Len(daily_rows) - 1) :
       /\ daily_rows[i].open_backorders_units > 0
       /\ daily_rows[i + 1].open_backorders_units =
            daily_rows[i].open_backorders_units

\* C26: at the end of every day on_hand + on_order - backorder, not clamped,
\* is the starting on_hand minus the demand so far plus the quantity placed
\* on confirmed orders so far; the arrivals step keeps it, the demand of a
\* SKU lowers it by exactly that demand, and only an order commit raises it.
C26_LedgerIdentity ==
  [][/\ pc' = "log" =>
          \A s \in SKUS :
            UnclampedPosition(s)' =
              as_int(inv[s], 1) - demanded'[s] + ordered'[s]
     /\ pc = "arrivals" =>
          \A s \in SKUS : UnclampedPosition(s)' = UnclampedPosition(s)
     /\ pc = "sku" =>
          \A s \in SKUS :
            UnclampedPosition(s)' =
              UnclampedPosition(s) - (IF s = idx THEN Sold(s) ELSE 0)
     /\ \A s \in SKUS :
          UnclampedPosition(s)' > UnclampedPosition(s) =>
            /\ pc = "propose"
            /\ day_order_placed'
            /\ s \in DOMAIN last_order'
            /\ UnclampedPosition(s)' =
                 UnclampedPosition(s) + last_order'[s]]_vars

\* end of a day for a SKU that has sold, has had an order arrive, has another
\* one open and has an open backorder
C26_Witness ==
  /\ pc = "log"
  /\ \E s \in SKUS :
       /\ demanded[s] > 0
       /\ ordered[s] > on_order[s]
       /\ on_order[s] > 0
       /\ backorders[s] > 0
       /\ arrived_today[s] > 0

\* C27: at most one PO is created per day, at most one arrives per day, the
\* open list never holds more than DEFAULT_LEAD_DAYS POs, their arrival dates
\* differ, and at the end of the day all of them lie after the current day.
C27_OnePOPerDay ==
  /\ n_orders <= day
  /\ Len(pos_in_transit) <= DEFAULT_LEAD_DAYS
  /\ \A i, j \in 1..Len(pos_in_transit) :
       i # j => pos_in_transit[i].eta # pos_in_transit[j].eta
  /\ Cardinality({i \in 1..Len(pos_in_transit) :
                    pos_in_transit[i].eta = day}) <= 1
  /\ \A i \in 1..Len(received) : received[i] <= 1
  /\ pc = "log" =>
       /\ \A i \in 1..Len(pos_in_transit) : pos_in_transit[i].eta > day
       /\ Cardinality({i \in 1..Len(pos_in_transit) :
                         pos_in_transit[i].eta = day + DEFAULT_LEAD_DAYS})
            = (IF day_order_placed THEN 1 ELSE 0)

\* end of a day on which one PO arrived and another was placed while an
\* earlier one is still open
C27_Witness ==
  /\ pc = "log"
  /\ day_order_placed
  /\ \E s \in SKUS : arrived_today[s] > 0
  /\ Len(pos_in_transit) >= 2

C29_RemainderDropped ==
  [][/\ (pc = "propose" /\ day_order_placed') =>
          \A s \in DOMAIN last_order' :
            /\ s \in PendingKeys(pending_batch)
            /\ last_order'[s] <= PendingQty(pending_batch, s)
            /\ s \notin PendingKeys(pending_batch')
     /\ \A s \in SKUS :
          (s \notin PendingKeys(pending_batch)
           /\ s \in PendingKeys(pending_batch')) =>
            /\ pc = "sku"
            /\ idx = s
            /\ Triggered(trig_ip'[s], s)
            /\ PendingQty(pending_batch', s) = trig_need'[s]]_vars

\* an order took fewer pieces of a SKU than the day's trigger check asked
\* for, and the SKU has no pending entry left
C29_Witness ==
  /\ pc = "log"
  /\ day_order_placed
  /\ \E s \in DOMAIN last_order :
       /\ trig_need[s] > last_order[s]
       /\ s \notin PendingKeys(pending_batch)

====
